---------------------------- MODULE Spec2Model ----------------------------
(***************************************************************************)
(* A model of imap_mail_cleaner.py: one run of main() against an IMAP      *)
(* server.  Every network call of the program is one action; the server's  *)
(* reply (OK, NO, an exception raised by imaplib, or an operator interrupt *)
(* while the call blocks) is chosen by the environment.  `trace` records   *)
(* every command that reached the wire together with its reply.  The       *)
(* server keeps its mailboxes from one run to the next (`mbox`), so that   *)
(* the command can be run a second time on what the first run left.        *)
(*                                                                         *)
(* Time is counted in ticks.  A minute has TicksPerMin ticks (so that an   *)
(* instant strictly between two minutes exists), a day has MinPerDay       *)
(* minutes.  An instant is a number of ticks since day 0, 00:00 UTC.       *)
(***************************************************************************)
EXTENDS Integers, Sequences, FiniteSets

VARIABLES
    args,           \* the parsed command line (argparse namespace)
    pc,             \* position of main()
    conn,           \* cleaner.conn is set (an IMAP4 object was constructed)
    fi,             \* index of the folder the driver loop is at
    window,         \* <<start_time, end_time>> once parsed, <<>> before
    message_ids,    \* candidates of search_messages_in_timerange
    filtered_ids,   \* refined list being built
    counts,         \* [outside, errors]: time_filtered_count, parsing_errors
    messages,       \* the list handed to delete_messages
    mi,             \* index of the message the current loop is at
    deleted_count,  \* delete_messages' counter
    total_deleted,  \* main's aggregate
    sel,            \* server: messages of the selected mailbox, by sequence number
    mbox,           \* server: the mailboxes opened so far, by folder index
    run,            \* which run of the command this is
    prior,          \* what the previous run left: its trace, log, list and mailboxes
    trace,          \* commands sent to the server, with the reply
    log,            \* claim-relevant log lines
    faults,         \* number of non-OK replies injected so far
    today,          \* clock: the local date, as an ordinal
    interrupted,    \* a KeyboardInterrupt is propagating / has propagated
    exitCode        \* process exit status, -1 while running

vars == <<args, pc, conn, fi, window, message_ids, filtered_ids, counts, messages,
          mi, deleted_count, total_deleted, sel, mbox, run, prior, trace, log, faults,
          today, interrupted, exitCode>>

---------------------------------------------------------------------------
(* Bounds *)

TicksPerMin == 2
MinPerDay == 2
MaxWinDay == 1
MaxFolders == 2
MaxMsgs == 2
MaxFaults == 1
MaxDaysOld == 1
NowDay == 2

\* argparse default of --days
DefaultDays == 30

DayLen == MinPerDay * TicksPerMin

---------------------------------------------------------------------------
(* Command-line inputs *)

None == <<>>

FolderNames == <<"INBOX", "Archive", "Sent", "Trash">>

\* A timestamp string: 'YYYY-MM-DD', 'YYYY-MM-DD HH:MM', or anything else.
TimeStrs ==
    {[kind |-> "bad", day |-> 0, min |-> 0]}
    \cup {[kind |-> "date", day |-> d, min |-> 0] : d \in 1..MaxWinDay}
    \cup {[kind |-> "datetime", day |-> d, min |-> m] :
              d \in 1..MaxWinDay, m \in 0..(MinPerDay - 1)}

ArgSets ==
    [dry_run : BOOLEAN,
     list_folders : BOOLEAN,
     folders : {SubSeq(FolderNames, 1, n) : n \in 1..MaxFolders},
     time_range : {None},
     days : 0..MaxDaysOld]
    \cup
    [dry_run : BOOLEAN,
     list_folders : BOOLEAN,
     folders : {SubSeq(FolderNames, 1, n) : n \in 1..MaxFolders},
     time_range : {<<s, e>> : s \in TimeStrs, e \in TimeStrs},
     days : {DefaultDays}]

---------------------------------------------------------------------------
(* Pure functions *)

\* parse_time_str: the instant (UTC) of a timestamp string, or ValueError.
parse_time_str(time_str) ==
    IF time_str.kind = "bad"
    THEN [ok |-> FALSE, dt |-> 0]
    ELSE [ok |-> TRUE,
          dt |-> time_str.day * DayLen
                 + (IF time_str.kind = "datetime" THEN time_str.min * TicksPerMin ELSE 0)]

---------------------------------------------------------------------------
(* Calendar dates.  A date is counted as datetime counts it: its proleptic *)
(* Gregorian ordinal, 0001-01-01 being day 1.                              *)

IsLeap(year) == year % 4 = 0 /\ (year % 100 # 0 \/ year % 400 = 0)

DaysInMonth(year, month) ==
    IF month = 2 THEN (IF IsLeap(year) THEN 29 ELSE 28)
    ELSE IF month \in {4, 6, 9, 11} THEN 30 ELSE 31

DaysBeforeYear(year) ==
    LET y == year - 1
    IN  y * 365 + (y \div 4) - (y \div 100) + (y \div 400)

\* Days of a common year that precede the first day of each month.
DaysBeforeMonthTable == <<0, 31, 59, 90, 120, 151, 181, 212, 243, 273, 304, 334>>

DaysBeforeMonth(year, month) ==
    DaysBeforeMonthTable[month] + (IF month > 2 /\ IsLeap(year) THEN 1 ELSE 0)

\* date(year, month, day).toordinal()
ToOrdinal(year, month, day) == DaysBeforeYear(year) + DaysBeforeMonth(year, month) + day

\* date.fromordinal(n), by whole 400-, 100-, 4- and 1-year cycles.
FromOrdinal(n) ==
    LET n400 == (n - 1) \div 146097
        r400 == (n - 1) % 146097
        n100 == r400 \div 36524
        r100 == r400 % 36524
        n4 == r100 \div 1461
        r4 == r100 % 1461
        n1 == r4 \div 365
        r1 == r4 % 365
        year == n400 * 400 + n100 * 100 + n4 * 4 + n1 + 1
        month == CHOOSE m \in 1..12 :
                     /\ DaysBeforeMonth(year, m) <= r1
                     /\ r1 < DaysBeforeMonth(year, m) + DaysInMonth(year, m)
    IN  IF n1 = 4 \/ n100 = 4
        THEN [year |-> year - 1, month |-> 12, day |-> 31]
        ELSE [year |-> year, month |-> month, day |-> r1 - DaysBeforeMonth(year, month) + 1]

\* %b in the C locale
MonthAbbr ==
    <<"Jan", "Feb", "Mar", "Apr", "May", "Jun", "Jul", "Aug", "Sep", "Oct", "Nov", "Dec">>

\* The text of a date in a search key: DD-Mon-YYYY.
DateText(day, mon, year) == [day |-> day, mon |-> mon, year |-> year]

\* d.strftime("%d-%b-%Y") of the date with ordinal n.
strftime(n) ==
    LET d == FromOrdinal(n) IN DateText(d.day, MonthAbbr[d.month], d.year)

\* The date the model's day 0 stands for: 2023-06-09.
DayZero == ToOrdinal(2023, 6, 9)

\* dt.strftime("%d-%b-%Y") of a UTC datetime: the text of its calendar day.
strftime_day(dt) == strftime(DayZero + (dt \div DayLen))

CutoffByCalendarYears(now_date, days_old) ==
    LET d == FromOrdinal(now_date)
    IN  DateText(d.day, MonthAbbr[d.month], d.year - (days_old \div 365))

\* (datetime.datetime.now() - datetime.timedelta(days=days_old))
\*     .strftime("%d-%b-%Y"), now_date being the ordinal of the local date.
cutoff_date(now_date, days_old) == strftime(now_date - days_old)

---------------------------------------------------------------------------
(* Messages and header dates *)

\* Zone offsets a Date header may carry, in ticks east of UTC.
ZoneOffs == {-(DayLen \div 2), 0, DayLen \div 2}

\* Wall-clock readings a Date header may carry: from the last tick of day 0
\* to the first tick of the day after the last window day.
MsgLocals == (DayLen - 1)..((MaxWinDay + 1) * DayLen)

\* The value of a Date header, as get_message_info returns it:
\*   aware   an RFC 5322 date with a zone: wall clock `local`, offset `off`
\*   naive   an RFC 5322 date whose zone is -0000 (parsed without tzinfo)
\*   garbage text that is no date ("tomorrow")
\*   unknown the 'Unknown Date' sentinel of a message without Date header
\*   empty   the "" of a failed fetch
DateStr(kind, local, off) == [kind |-> kind, local |-> local, off |-> off]

UnknownDate == DateStr("unknown", 0, 0)
EmptyDate == DateStr("empty", 0, 0)

\* A message as it lies in a mailbox before the program touches it: no
\* \Deleted flag and, since reading is the only thing that could set it, no
\* \Seen flag.
Message(date, iday) == [date |-> date, iday |-> iday, deleted |-> FALSE, seen |-> FALSE]

\* A message of a mailbox: its Date header (absent: "missing"), the day the
\* server's SINCE/BEFORE compare (the date in the message's own zone,
\* disregarding time and zone), and its flags.
Messages ==
    {Message(DateStr("aware", l, z), l \div DayLen) : l \in MsgLocals, z \in ZoneOffs}
    \cup {Message(DateStr("naive", DayLen, 0), 1)}
    \cup {Message(DateStr(k, 0, 0), 1) : k \in {"garbage", "missing"}}

RECURSIVE SeqsUpTo(_, _)
SeqsUpTo(S, n) ==
    IF n = 0 THEN {<<>>}
    ELSE LET shorter == SeqsUpTo(S, n - 1)
         IN  shorter \cup {Append(q, x) : q \in {r \in shorter : Len(r) = n - 1}, x \in S}

\* The mailboxes of the time-range specification: any messages.
Contents == SeqsUpTo(Messages, MaxMsgs)

\* The mailboxes of the whole-run specification: UTC-dated messages on day 1
\* (its first instant, and the tick after its second minute began) and
\* messages without a usable date.
CoarseMessages ==
    {m \in Messages :
        \/ m.date.kind = "garbage"
        \/ /\ m.date.kind = "aware"
           /\ m.date.off = 0
           /\ m.date.local \in {DayLen, DayLen + TicksPerMin + 1}}

CoarseContents == SeqsUpTo(CoarseMessages, MaxMsgs)

\* The instant a zone-aware header date denotes.
Instant(d) == d.local - d.off

\* email.utils.parsedate_to_datetime: raises (ok = FALSE) on text that is no
\* date; returns a datetime without tzinfo for a -0000 zone.
parsedate_to_datetime(date_str) ==
    IF date_str.kind \in {"aware", "naive"}
    THEN [ok |-> TRUE, aware |-> date_str.kind = "aware", d |-> date_str]
    ELSE [ok |-> FALSE, aware |-> FALSE, d |-> date_str]

RefineOneEndExclusive(start_time, end_time, date_str) ==
    LET parsed == parsedate_to_datetime(date_str)
    IN  IF ~parsed.ok THEN "error"
        ELSE IF ~parsed.aware THEN "error"
        ELSE IF start_time <= Instant(parsed.d) /\ Instant(parsed.d) < end_time
             THEN "keep"
             ELSE "outside"

\* The try block of the refiner loop for one message: "keep" (appended),
\* "outside" (time_filtered_count), "error" (parsing_errors: parse raised, or
\* comparing an aware with a naive datetime raised TypeError).
RefineOne(start_time, end_time, date_str) ==
    LET parsed == parsedate_to_datetime(date_str)
    IN  IF ~parsed.ok THEN "error"
        ELSE IF ~parsed.aware THEN "error"
        ELSE IF start_time <= Instant(parsed.d) /\ Instant(parsed.d) <= end_time
             THEN "keep"
             ELSE "outside"

---------------------------------------------------------------------------
(* The server *)

\* A search key list: BEFORE before, preceded by SINCE since when has_since;
\* both are date texts.
Query(has_since, since, before) ==
    [has_since |-> has_since, since |-> since, before |-> before]

\* The place of the SINCE date in a key list without SINCE.
NoDate == DateText(0, "", 0)

\* The server's reading of a date text: the model day it names.
ParseDate(text) ==
    LET month == CHOOSE m \in 1..12 : MonthAbbr[m] = text.mon
    IN  ToOrdinal(text.year, month, text.day) - DayZero

\* SINCE is inclusive and BEFORE exclusive, both at day granularity.
ServerMatches(m, q) ==
    /\ (q.has_since => m.iday >= ParseDate(q.since))
    /\ m.iday < ParseDate(q.before)

\* The sequence numbers of the selected mailbox that match q, ascending.
RECURSIVE SearchFrom(_, _, _)
SearchFrom(s, q, i) ==
    IF i > Len(s) THEN <<>>
    ELSE (IF ServerMatches(s[i], q) THEN <<i>> ELSE <<>>) \o SearchFrom(s, q, i + 1)

ServerSearch(s, q) == SearchFrom(s, q, 1)

\* EXPUNGE: the messages flagged \Deleted are removed and the rest renumbered.
RECURSIVE ServerExpunge(_)
ServerExpunge(s) ==
    IF s = <<>> THEN <<>>
    ELSE (IF Head(s).deleted THEN <<>> ELSE <<Head(s)>>) \o ServerExpunge(Tail(s))

Cmd(c, a, r) == [cmd |-> c, arg |-> a, res |-> r]

\* The outcomes of a call that make imaplib raise an exception: "raise", a
\* BAD reply (IMAP4.error; the connection stays usable), and "abort", the
\* connection was lost (IMAP4.abort, OSError).
Raised == {"raise", "abort"}

\* The connection was lost: every later call raises as well.
Severed == \E i \in 1..Len(trace) : trace[i].res = "abort"

\* FETCH of a message's data item: BODY[...] sets \Seen, BODY.PEEK[...] does not.
ServerFetch(s, msg_id, item) ==
    IF item = "BODY.PEEK" \/ msg_id \notin 1..Len(s) THEN s
    ELSE [s EXCEPT ![msg_id].seen = TRUE]

\* What a command that changes the mailbox from s to t leaves when answered
\* r: a command that was cut off (interrupt, lost connection) may or may not
\* have been carried out.
Applied(r, s, t) ==
    IF r = "OK" THEN {t}
    ELSE IF r \in {"interrupt", "abort"} THEN {s, t}
    ELSE {s}

\* The replies the environment may give to a command.
Replies ==
    IF Severed THEN {"abort"}
    ELSE IF faults < MaxFaults THEN {"OK", "NO", "raise", "abort", "interrupt"}
    ELSE {"OK"}

\* Counts the failures the environment injects (not the ones a lost
\* connection forces).
Fault(r) == faults' = faults + (IF r = "OK" \/ Severed THEN 0 ELSE 1)

---------------------------------------------------------------------------
(* The program *)

\* No mailbox has been opened yet.
NoMailboxes == [f \in {} |-> <<>>]

\* The mailboxes with folder f holding the messages s.
Holding(f, s) == [g \in DOMAIN mbox \cup {f} |-> IF g = f THEN s ELSE mbox[g]]

\* The state main() starts in, given the command line and the date.
Started(arguments, date) ==
    /\ args = arguments
    /\ today = date
    /\ pc = "connect"
    /\ conn = FALSE
    /\ fi = 1
    /\ window = <<>>
    /\ message_ids = <<>>
    /\ filtered_ids = <<>>
    /\ counts = [outside |-> 0, errors |-> 0]
    /\ messages = <<>>
    /\ mi = 1
    /\ deleted_count = 0
    /\ total_deleted = 0
    /\ sel = <<>>
    /\ mbox = NoMailboxes
    /\ run = 1
    /\ prior = None
    /\ trace = <<>>
    /\ log = <<>>
    /\ faults = 0
    /\ interrupted = FALSE
    /\ exitCode = -1

Init == \E arguments \in ArgSets : Started(arguments, DayZero + NowDay)

Line(tag, n) == [tag |-> tag, n |-> n]

\* Exit status of an uncaught KeyboardInterrupt (1 before Python 3.8, 130 since).
InterruptExit == {1, 130}

UnwindNoFinally ==
    /\ pc' = "done"
    /\ interrupted' = TRUE

UnwindThroughExpunge ==
    /\ pc' = IF pc \in {"delete_fetch", "store"} THEN "expunge" ELSE "finally"
    /\ interrupted' = TRUE

\* A KeyboardInterrupt raised in the body unwinds to the finally clause.
Unwind ==
    /\ pc' = "finally"
    /\ interrupted' = TRUE

ValidateBeforeList == "prepare"

\* Head of the try block of main(): --list-folders is looked at before any
\* other argument, and returns before --time-range is parsed.
BodyEntry == IF args.list_folders THEN "list" ELSE "prepare"

\* cleaner.connect() and the sys.exit(1) after it.  "refused": the IMAP4
\* constructor raised, nothing was sent.  "NO" / "raise": LOGIN was sent and
\* imaplib raised.  None of these paths reaches the try block.
Connect ==
    /\ pc = "connect"
    /\ \E r \in {"OK", "refused", "NO", "raise", "interrupt"} :
         /\ conn' = (r # "refused")
         /\ trace' = IF r = "refused" THEN trace ELSE Append(trace, Cmd("LOGIN", 0, r))
         /\ IF r = "OK"
            THEN /\ pc' = BodyEntry
                 /\ UNCHANGED <<exitCode, interrupted, log>>
            ELSE IF r = "interrupt"
            THEN /\ pc' = "done"
                 /\ interrupted' = TRUE
                 /\ exitCode' \in InterruptExit
                 /\ UNCHANGED log
            ELSE /\ pc' = "done"
                 /\ exitCode' = 1
                 /\ log' = Append(log, Line("connect_failed", 0))
                 /\ UNCHANGED interrupted
    /\ UNCHANGED <<args, today, run, prior, mbox, fi, window, message_ids, filtered_ids,
                   counts, messages, mi, deleted_count, total_deleted, sel, faults>>

\* --list-folders: cleaner.list_folders(), print, return.
ListFolders ==
    /\ pc = "list"
    /\ \E r \in Replies :
         /\ Fault(r)
         /\ trace' = Append(trace, Cmd("LIST", 0, r))
         /\ IF r = "interrupt"
            THEN Unwind /\ UNCHANGED log
            ELSE /\ pc' = "finally"
                 /\ log' = Append(log, Line(IF r = "OK" THEN "folders" ELSE "no_folders", 0))
                 /\ UNCHANGED interrupted
    /\ UNCHANGED <<args, today, run, prior, mbox, conn, fi, window, message_ids,
                   filtered_ids, counts, messages, mi, deleted_count, total_deleted,
                   sel, exitCode>>

\* The mode banner and the parsing of --time-range in main().
PrepareTimeRange ==
    /\ pc = "prepare"
    /\ IF args.time_range # None
       THEN LET start_time == parse_time_str(args.time_range[1])
                end_time == parse_time_str(args.time_range[2])
            IN  IF ~start_time.ok \/ ~end_time.ok
                THEN /\ log' = Append(log, Line("bad_time", 0))
                     /\ pc' = "finally"
                     /\ UNCHANGED window
                ELSE IF start_time.dt > end_time.dt
                THEN /\ log' = Append(log, Line("reversed", 0))
                     /\ pc' = "finally"
                     /\ UNCHANGED window
                ELSE /\ window' = <<start_time.dt, end_time.dt>>
                     /\ pc' = "select"
                     /\ UNCHANGED log
       ELSE /\ pc' = "select"
            /\ UNCHANGED <<window, log>>
    /\ UNCHANGED <<args, today, run, prior, mbox, conn, fi, message_ids, filtered_ids,
                   counts, messages, mi, deleted_count, total_deleted, sel, trace,
                   faults, interrupted, exitCode>>

SkipFolderAborts ==
    /\ pc' = "finally"
    /\ UNCHANGED fi

\* The `continue` of the folder loop after a failed selection.
SkipFolder ==
    /\ fi' = fi + 1
    /\ pc' = "select"

\* cleaner.select_folder(folder) and the skip on a negative count.  A
\* successful SELECT makes the folder's messages the current selection (what
\* the folder holds shows at its first SELECT); a failed one leaves no mailbox
\* selected.
SelectFolderFrom(mailboxes) ==
    /\ pc = "select"
    /\ fi <= Len(args.folders)
    /\ \E r \in Replies :
         /\ Fault(r)
         /\ trace' = Append(trace, Cmd("SELECT", fi, r))
         /\ IF r = "interrupt"
            THEN Unwind /\ sel' = <<>> /\ UNCHANGED <<fi, log, mbox>>
            ELSE IF r = "OK"
            THEN /\ sel' \in IF fi \in DOMAIN mbox THEN {mbox[fi]} ELSE mailboxes
                 /\ mbox' = Holding(fi, sel')
                 /\ pc' = "search"
                 /\ UNCHANGED <<fi, log, interrupted>>
            ELSE /\ sel' = <<>>
                 /\ log' = Append(log, Line("select_failed", fi))
                 /\ SkipFolder
                 /\ UNCHANGED <<interrupted, mbox>>
    /\ UNCHANGED <<args, today, run, prior, conn, window, message_ids, filtered_ids,
                   counts, messages, mi, deleted_count, total_deleted, exitCode>>

AfterSearchStale(found, lines) ==
    LET list == IF found # <<>> THEN found ELSE messages
    IN  /\ messages' = list
        /\ IF list # <<>>
           THEN /\ pc' = "delete_fetch"
                /\ mi' = 1
                /\ deleted_count' = 0
                /\ log' = log \o lines
                /\ UNCHANGED fi
           ELSE /\ pc' = "select"
                /\ fi' = fi + 1
                /\ log' = log \o lines \o <<Line("none_found", fi)>>
                /\ UNCHANGED <<mi, deleted_count>>

\* What main() does with the list a search returned: hand it to
\* delete_messages when it is not empty, else go on to the next folder.
AfterSearch(found, lines) ==
    /\ messages' = found
    /\ IF found # <<>>
       THEN /\ pc' = "delete_fetch"
            /\ mi' = 1
            /\ deleted_count' = 0
            /\ log' = log \o lines
            /\ UNCHANGED fi
       ELSE /\ pc' = "select"
            /\ fi' = fi + 1
            /\ log' = log \o lines \o <<Line("none_found", fi)>>
            /\ UNCHANGED <<mi, deleted_count>>

AfterDeleteOverwrite(deleted, lines) ==
    /\ total_deleted' = deleted
    /\ log' = log \o lines \o <<Line(IF args.dry_run THEN "would_have_deleted"
                                                       ELSE "deleted", deleted)>>
    /\ fi' = fi + 1
    /\ pc' = "select"

\* What main() does with the count delete_messages returned.
AfterDelete(deleted, lines) ==
    /\ total_deleted' = total_deleted + deleted
    /\ log' = log \o lines \o <<Line(IF args.dry_run THEN "would_have_deleted"
                                                       ELSE "deleted", deleted)>>
    /\ fi' = fi + 1
    /\ pc' = "select"

FetchItemBody == "BODY"

\* The data item get_message_info asks for (of it, the part before the section).
FetchItem == "BODY.PEEK"

\* The header date get_message_info returns for a fetch answered r.
FetchedDate(msg_id, r) ==
    IF r # "OK" \/ msg_id > Len(sel) THEN EmptyDate
    ELSE IF sel[msg_id].date.kind = "missing" THEN UnknownDate
    ELSE sel[msg_id].date

SelectFolder == SelectFolderFrom(CoarseContents)

SelectFolderAny == SelectFolderFrom(Contents)

\* cleaner.search_old_messages(args.days), days-older mode.
SearchOld ==
    /\ pc = "search"
    /\ args.time_range = None
    /\ \E r \in Replies, q \in {Query(FALSE, NoDate, cutoff_date(today, args.days))} :
         /\ Fault(r)
         /\ trace' = Append(trace, Cmd("SEARCH", q, r))
         /\ IF r = "interrupt"
            THEN Unwind /\ UNCHANGED <<messages, mi, deleted_count, fi, log>>
            ELSE /\ AfterSearch(IF r = "OK" THEN ServerSearch(sel, q) ELSE <<>>,
                                IF r = "OK" THEN <<>> ELSE <<Line("search_failed", fi)>>)
                 /\ UNCHANGED interrupted
    /\ UNCHANGED <<args, today, run, prior, mbox, conn, window, message_ids,
                   filtered_ids, counts, total_deleted, sel, exitCode>>

\* cleaner.search_messages_in_timerange(start_time, end_time) up to the
\* refiner loop: the SEARCH and the early returns.
SearchTimerange ==
    /\ pc = "search"
    /\ args.time_range # None
    /\ LET start_date == strftime_day(window[1])
           next_day == strftime_day(window[2] + DayLen)
       IN  \E r \in Replies, q \in {Query(TRUE, start_date, next_day)} :
             /\ Fault(r)
             /\ trace' = Append(trace, Cmd("SEARCH", q, r))
             /\ IF r = "interrupt"
                THEN /\ Unwind
                     /\ UNCHANGED <<messages, mi, deleted_count, fi, log, message_ids,
                                    filtered_ids, counts>>
                ELSE IF r = "OK" /\ ServerSearch(sel, q) # <<>>
                THEN /\ message_ids' = ServerSearch(sel, q)
                     /\ filtered_ids' = <<>>
                     /\ counts' = [outside |-> 0, errors |-> 0]
                     /\ mi' = 1
                     /\ pc' = "refine"
                     /\ UNCHANGED <<messages, deleted_count, fi, log, interrupted>>
                ELSE /\ AfterSearch(<<>>, IF r = "OK" THEN <<>>
                                          ELSE <<Line("search_failed", fi)>>)
                     /\ UNCHANGED <<message_ids, filtered_ids, counts, interrupted>>
    /\ UNCHANGED <<args, today, run, prior, mbox, conn, window, total_deleted, sel,
                   exitCode>>

KeepInFront(ids, msg_id) == <<msg_id>> \o ids

\* filtered_ids.append(msg_id)
Keep(ids, msg_id) == Append(ids, msg_id)

\* One iteration of the refiner loop: get_message_info(msg_id), parse and
\* compare; after the last candidate, return filtered_ids to main().
RefineFetch ==
    /\ pc = "refine"
    /\ LET msg_id == message_ids[mi]
       IN  \E r \in Replies :
             /\ Fault(r)
             /\ trace' = Append(trace, Cmd("FETCH", msg_id, r))
             /\ sel' = IF r = "OK" THEN ServerFetch(sel, msg_id, FetchItem) ELSE sel
             /\ mbox' = Holding(fi, sel')
             /\ IF r = "interrupt"
                THEN /\ Unwind
                     /\ UNCHANGED <<messages, mi, deleted_count, fi, log, filtered_ids,
                                    counts>>
                ELSE LET date_str == FetchedDate(msg_id, r)
                         verdict == RefineOne(window[1], window[2], date_str)
                         kept == IF verdict = "keep" THEN Keep(filtered_ids, msg_id)
                                 ELSE filtered_ids
                         fetch_err == IF r = "OK" THEN <<>>
                                      ELSE <<Line("fetch_failed", msg_id)>>
                         warn == IF verdict = "error"
                                 THEN <<Line("parse_warning", msg_id)>> ELSE <<>>
                     IN  /\ filtered_ids' = kept
                         /\ counts' =
                              [outside |-> counts.outside
                                           + (IF verdict = "outside" THEN 1 ELSE 0),
                               errors |-> counts.errors
                                          + (IF verdict = "error" THEN 1 ELSE 0)]
                         /\ IF mi < Len(message_ids)
                            THEN /\ mi' = mi + 1
                                 /\ log' = log \o fetch_err \o warn
                                 /\ UNCHANGED <<pc, messages, deleted_count, fi>>
                            ELSE AfterSearch(kept, fetch_err \o warn)
                         /\ UNCHANGED interrupted
    /\ UNCHANGED <<args, today, run, prior, conn, window, message_ids, total_deleted,
                   exitCode>>

ServerStoreSeen(s, msg_id) ==
    IF msg_id \in 1..Len(s) THEN [s EXCEPT ![msg_id].seen = TRUE] ELSE s

\* STORE +FLAGS \Deleted on the server.
ServerStore(s, msg_id) ==
    IF msg_id \in 1..Len(s) THEN [s EXCEPT ![msg_id].deleted = TRUE] ELSE s

DryRunIgnored == FALSE

\* The dry_run argument main() passes to delete_messages.
DryRun == args.dry_run

\* delete_messages, head of one loop iteration: get_message_info(msg_id) for
\* the preview; in dry-run mode the "Would delete" line and the count.
DeleteFetch ==
    /\ pc = "delete_fetch"
    /\ LET msg_id == messages[mi]
       IN  \E r \in Replies :
             /\ Fault(r)
             /\ trace' = Append(trace, Cmd("FETCH", msg_id, r))
             /\ sel' = IF r = "OK" THEN ServerFetch(sel, msg_id, FetchItem) ELSE sel
             /\ mbox' = Holding(fi, sel')
             /\ IF r = "interrupt"
                THEN Unwind /\ UNCHANGED <<mi, deleted_count, total_deleted, fi, log>>
                ELSE LET fetch_err == IF r = "OK" THEN <<>>
                                      ELSE <<Line("fetch_failed", msg_id)>>
                     IN  /\ IF ~DryRun
                            THEN /\ pc' = "store"
                                 /\ log' = log \o fetch_err
                                 /\ UNCHANGED <<mi, deleted_count, total_deleted, fi>>
                            ELSE /\ deleted_count' = deleted_count + 1
                                 /\ IF mi < Len(messages)
                                    THEN /\ mi' = mi + 1
                                         /\ log' = log \o fetch_err
                                                       \o <<Line("would_delete", msg_id)>>
                                         /\ UNCHANGED <<pc, total_deleted, fi>>
                                    ELSE /\ AfterDelete(deleted_count + 1,
                                               fetch_err \o <<Line("would_delete", msg_id)>>)
                                         /\ UNCHANGED mi
                         /\ UNCHANGED interrupted
    /\ UNCHANGED <<args, today, run, prior, conn, window, message_ids, filtered_ids,
                   counts, messages, exitCode>>

CountWithFailed == deleted_count + 1

\* What the except clause of delete_messages returns: deleted_count as the
\* loop left it.
CountAtRaise == deleted_count

\* delete_messages, rest of one loop iteration when not in dry-run mode:
\* conn.store(msg_id, '+FLAGS', '\\Deleted'), whose status is not looked at,
\* and the except clause around the loop.
Store ==
    /\ pc = "store"
    /\ LET msg_id == messages[mi]
       IN  \E r \in Replies :
             /\ Fault(r)
             /\ trace' = Append(trace, Cmd("STORE", msg_id, r))
             /\ sel' \in Applied(r, sel, ServerStore(sel, msg_id))
             /\ mbox' = Holding(fi, sel')
             /\ IF r = "interrupt"
                THEN Unwind /\ UNCHANGED <<mi, deleted_count, total_deleted, fi, log>>
                ELSE IF r \in Raised
                THEN /\ AfterDelete(CountAtRaise, <<Line("error_deleting", msg_id)>>)
                     /\ UNCHANGED <<mi, deleted_count, interrupted>>
                ELSE /\ deleted_count' = deleted_count + 1
                     /\ log' = Append(log, Line("marked", msg_id))
                     /\ mi' = IF mi < Len(messages) THEN mi + 1 ELSE mi
                     /\ pc' = IF mi < Len(messages) THEN "delete_fetch" ELSE "expunge"
                     /\ UNCHANGED <<total_deleted, fi, interrupted>>
    /\ UNCHANGED <<args, today, run, prior, conn, window, message_ids, filtered_ids,
                   counts, messages, exitCode>>

\* delete_messages after the loop when not in dry-run mode: conn.expunge()
\* and the return of deleted_count.
Expunge ==
    /\ pc = "expunge"
    /\ \E r \in Replies :
         /\ Fault(r)
         /\ trace' = Append(trace, Cmd("EXPUNGE", 0, r))
         /\ sel' \in Applied(r, sel, ServerExpunge(sel))
         /\ mbox' = Holding(fi, sel')
         /\ IF r = "interrupt"
            THEN Unwind /\ UNCHANGED <<total_deleted, fi, log>>
            ELSE /\ AfterDelete(deleted_count,
                       <<Line(IF r \in Raised THEN "error_deleting" ELSE "expunged",
                              deleted_count)>>)
                 /\ UNCHANGED interrupted
    /\ UNCHANGED <<args, today, run, prior, conn, window, message_ids, filtered_ids,
                   counts, messages, mi, deleted_count, exitCode>>

\* End of the folder loop: the aggregate line of a multi-folder run.
Summary ==
    /\ pc = "select"
    /\ fi > Len(args.folders)
    /\ log' = IF Len(args.folders) > 1
              THEN Append(log, Line("summary", total_deleted)) ELSE log
    /\ pc' = "finally"
    /\ UNCHANGED <<args, today, run, prior, mbox, conn, fi, window, message_ids,
                   filtered_ids, counts, messages, mi, deleted_count, total_deleted,
                   sel, trace, faults, interrupted, exitCode>>

\* The finally clause: cleaner.disconnect(), then the process ends: status 0
\* after a return from main(), the interrupt's status when one is propagating.
Disconnect ==
    /\ pc = "finally"
    /\ \E r \in Replies \ {"NO"} :
         /\ Fault(r)
         /\ trace' = IF conn THEN Append(trace, Cmd("LOGOUT", 0, r)) ELSE trace
         /\ log' = Append(log, Line(IF r = "OK" THEN "disconnected"
                                                ELSE "disconnect_error", 0))
         /\ interrupted' = (interrupted \/ r = "interrupt")
         /\ IF interrupted' THEN exitCode' \in InterruptExit ELSE exitCode' = 0
    /\ pc' = "done"
    /\ sel' = <<>>
    /\ UNCHANGED <<args, today, run, prior, mbox, conn, fi, window, message_ids,
                   filtered_ids, counts, messages, mi, deleted_count, total_deleted>>

\* The operator runs the command again once it has ended: the same command
\* line, without --dry-run when the run before was a dry run.  The mailboxes
\* are as the run before left them, no mail has arrived, the date is the same.
Rerun ==
    /\ pc = "done"
    /\ run = 1
    /\ run' = 2
    /\ prior' = [args |-> args, trace |-> trace, log |-> log, messages |-> messages,
                 mbox |-> mbox, interrupted |-> interrupted]
    /\ args' = [args EXCEPT !.dry_run = FALSE]
    /\ pc' = "connect"
    /\ conn' = FALSE
    /\ fi' = 1
    /\ window' = <<>>
    /\ message_ids' = <<>>
    /\ filtered_ids' = <<>>
    /\ counts' = [outside |-> 0, errors |-> 0]
    /\ messages' = <<>>
    /\ mi' = 1
    /\ deleted_count' = 0
    /\ total_deleted' = 0
    /\ sel' = <<>>
    /\ trace' = <<>>
    /\ log' = <<>>
    /\ interrupted' = FALSE
    /\ exitCode' = -1
    /\ UNCHANGED <<mbox, faults, today>>

Next ==
    \/ Connect
    \/ ListFolders
    \/ PrepareTimeRange
    \/ SelectFolder
    \/ SearchOld
    \/ SearchTimerange
    \/ RefineFetch
    \/ DeleteFetch
    \/ Store
    \/ Expunge
    \/ Summary
    \/ Disconnect

Spec == Init /\ [][Next]_vars

\* Time-range runs on one folder holding any messages.
InitRange ==
    /\ Init
    /\ args.time_range # None
    /\ ~args.list_folders
    /\ Len(args.folders) = 1

NextRange ==
    \/ Connect
    \/ PrepareTimeRange
    \/ SelectFolderAny
    \/ SearchTimerange
    \/ RefineFetch
    \/ DeleteFetch
    \/ Store
    \/ Expunge
    \/ Summary
    \/ Disconnect

SpecRange == InitRange /\ [][NextRange]_vars

\* A run on one folder followed by a second run of the command.
InitTwice ==
    \E arguments \in ArgSets :
        /\ ~arguments.list_folders
        /\ Len(arguments.folders) = 1
        /\ Started(arguments, DayZero + NowDay)

NextTwice ==
    \/ Connect
    \/ PrepareTimeRange
    \/ SelectFolder
    \/ SearchOld
    \/ SearchTimerange
    \/ RefineFetch
    \/ DeleteFetch
    \/ Store
    \/ Expunge
    \/ Summary
    \/ Disconnect
    \/ Rerun

SpecTwice == InitTwice /\ [][NextTwice]_vars

\* Days-older runs on one folder, on dates and with --days values around year
\* ends, month ends and leap days.
CutoffTodays ==
    {ToOrdinal(2025, 2, 1), ToOrdinal(2024, 3, 1), ToOrdinal(2024, 12, 31),
     ToOrdinal(2100, 3, 1), ToOrdinal(2000, 2, 29)}

CutoffDaysOld == {0, 1, 30, 365, 366}

InitCutoff ==
    \E date \in CutoffTodays, days \in CutoffDaysOld, dry_run \in BOOLEAN :
        Started([dry_run |-> dry_run, list_folders |-> FALSE, folders |-> <<"INBOX">>,
                 time_range |-> None, days |-> days], date)

NextCutoff ==
    \/ Connect
    \/ PrepareTimeRange
    \/ SelectFolder
    \/ SearchOld
    \/ DeleteFetch
    \/ Store
    \/ Expunge
    \/ Summary
    \/ Disconnect

SpecCutoff == InitCutoff /\ [][NextCutoff]_vars

---------------------------------------------------------------------------
(* Properties *)

Last(q) == q[Len(q)]

CmdIdx(c) == {i \in 1..Len(trace) : trace[i].cmd = c}

\* Index of the latest SELECT in the trace, 0 when there is none.
LastSelect ==
    IF CmdIdx("SELECT") = {} THEN 0
    ELSE CHOOSE i \in CmdIdx("SELECT") : \A j \in CmdIdx("SELECT") : j <= i

\* Commands c sent since the latest SELECT.
SinceSelect(c) == {i \in CmdIdx(c) : i > LastSelect}

Authenticated == trace # <<>> /\ trace[1] = Cmd("LOGIN", 0, "OK")

\* --time-range was given and is unparseable or reversed.
InvalidTimeRange ==
    /\ args.time_range # None
    /\ \/ args.time_range[1].kind = "bad"
       \/ args.time_range[2].kind = "bad"
       \/ parse_time_str(args.time_range[1]).dt > parse_time_str(args.time_range[2]).dt

\* delete_messages has just returned from a real (not dry-run) commit.
CommitReturned ==
    /\ ~args.dry_run
    /\ pc = "select"
    /\ trace # <<>>
    /\ Last(trace).cmd \in {"STORE", "EXPUNGE"}

\* C1. Dry-run safety: in a dry run the trace holds no STORE and no EXPUNGE,
\* no message of any mailbox gets flagged, and the only deletion lines in the
\* log are previews.
DryRunSafety ==
    args.dry_run =>
        /\ \A i \in 1..Len(trace) : trace[i].cmd \notin {"STORE", "EXPUNGE"}
        /\ \A i \in 1..Len(sel) : ~sel[i].deleted
        /\ \A f \in DOMAIN mbox : \A i \in 1..Len(mbox[f]) : ~mbox[f][i].deleted
        /\ \A i \in 1..Len(log) : log[i].tag \notin {"marked", "expunged", "deleted"}

\* A dry run that previewed a message, met a server failure, and ended.
DryRunWitness ==
    /\ args.dry_run
    /\ pc = "done"
    /\ faults > 0
    /\ \E i \in 1..Len(log) : log[i].tag = "would_delete"

\* search_messages_in_timerange has just returned to main(): its last
\* command was the FETCH of the last candidate.
RefinerReturned ==
    /\ args.time_range # None
    /\ trace # <<>>
    /\ Last(trace).cmd = "FETCH"
    /\ \/ pc = "delete_fetch" /\ mi = 1
       \/ pc = "select" /\ messages = <<>>

\* The reply to the FETCH of the k-th candidate.
CandidateFetch(k) == trace[Len(trace) - Len(message_ids) + k]

\* The k-th candidate's Date was fetched, is a zone-aware date and lies in
\* the closed window.
InWindow(k) ==
    LET d == sel[message_ids[k]].date
    IN  /\ CandidateFetch(k).res = "OK"
        /\ d.kind = "aware"
        /\ window[1] <= d.local - d.off
        /\ d.local - d.off <= window[2]

\* The k-th candidate's Date could not be fetched, is missing, is no date, or
\* is a date without a zone.
Undated(k) ==
    \/ CandidateFetch(k).res # "OK"
    \/ sel[message_ids[k]].date.kind # "aware"

RECURSIVE Exact(_)
Exact(k) ==
    IF k = 0 THEN <<>>
    ELSE Exact(k - 1) \o (IF InWindow(k) THEN <<message_ids[k]>> ELSE <<>>)

SupersetProperty ==
    (/\ args.time_range # None
     /\ trace # <<>>
     /\ Last(trace).cmd = "SEARCH"
     /\ Last(trace).res = "OK")
    => /\ Last(trace).arg = Query(TRUE, strftime(DayZero + (window[1] \div DayLen)),
                                   strftime(DayZero + (window[2] \div DayLen) + 1))
       /\ \A i \in 1..Len(sel) :
            (/\ sel[i].date.kind = "aware"
             /\ window[1] <= sel[i].date.local - sel[i].date.off
             /\ sel[i].date.local - sel[i].date.off <= window[2])
            => ServerMatches(sel[i], Last(trace).arg)

\* C4. Reversed-window and bad-timestamp rejection: a run (other than
\* --list-folders) whose --time-range is invalid opens no connection and
\* sends no command.
RejectedBeforeNetwork ==
    (InvalidTimeRange /\ ~args.list_folders) => (~conn /\ trace = <<>>)

\* C5. Exit codes: 1 when connecting or authenticating fails, 2 on an invalid
\* time range, 0 otherwise (interrupted runs aside).
ExitCodes ==
    (pc = "done" /\ ~interrupted) =>
        exitCode = IF ~Authenticated THEN 1
                   ELSE IF InvalidTimeRange /\ ~args.list_folders THEN 2
                   ELSE 0

StorePerMessage ==
    CommitReturned => Cardinality(SinceSelect("STORE")) = Len(messages)

\* C8. Single trailing EXPUNGE: when a real commit returns, EXPUNGE was issued
\* once if some message of the folder got flagged and not at all otherwise,
\* and it follows every STORE of the folder.
SingleTrailingExpunge ==
    CommitReturned =>
        /\ Cardinality(SinceSelect("EXPUNGE")) =
               IF \E i \in SinceSelect("STORE") : trace[i].res = "OK" THEN 1 ELSE 0
        /\ \A i \in SinceSelect("EXPUNGE") : \A j \in SinceSelect("STORE") : j < i

\* C9. Deleted count: the count a real commit returns is the number of STOREs
\* the server answered OK.
DeletedCount ==
    CommitReturned =>
        deleted_count = Cardinality({i \in SinceSelect("STORE") : trace[i].res = "OK"})

DataCmds == {"SEARCH", "FETCH", "STORE", "EXPUNGE"}

\* C10. Select failure skips only that folder: every SEARCH, FETCH, STORE and
\* EXPUNGE comes after a SELECT whose latest instance succeeded; a failed
\* SELECT is followed by the SELECT of the next folder of the list (by the
\* end of the run after the last folder), and a successful one by its SEARCH.
SelectFailureSkips ==
    /\ \A i \in 1..Len(trace) :
         trace[i].cmd \in DataCmds =>
            \E j \in 1..(i - 1) :
               /\ trace[j] = Cmd("SELECT", trace[j].arg, "OK")
               /\ \A k \in (j + 1)..(i - 1) : trace[k].cmd # "SELECT"
    /\ \A i \in CmdIdx("SELECT") :
         trace[i].res \in {"NO"} \cup Raised =>
            IF trace[i].arg < Len(args.folders)
            THEN IF i < Len(trace)
                 THEN trace[i + 1].cmd = "SELECT" /\ trace[i + 1].arg = trace[i].arg + 1
                 ELSE pc = "select" /\ fi = trace[i].arg + 1
            ELSE IF i < Len(trace)
                 THEN trace[i + 1].cmd = "LOGOUT"
                 ELSE (pc = "select" /\ fi = trace[i].arg + 1) \/ pc = "finally"
    /\ \A i \in CmdIdx("SELECT") :
         (trace[i].res = "OK" /\ i < Len(trace)) => trace[i + 1].cmd = "SEARCH"

\* The first folder's SELECT failed and the second folder was searched.
SelectFailureWitness ==
    /\ Len(trace) >= 4
    /\ trace[2].cmd = "SELECT" /\ trace[2].arg = 1 /\ trace[2].res \in {"NO"} \cup Raised
    /\ trace[3] = Cmd("SELECT", 2, "OK")
    /\ trace[4].cmd = "SEARCH"

\* C20. --list-folders mode: the only commands are LOGIN, LIST and LOGOUT, in
\* that order, whatever --days, --time-range, --folder(s) and --dry-run are;
\* the time range is neither parsed nor rejected.
ListFoldersOnly ==
    args.list_folders =>
        /\ \A i \in 1..Len(trace) :
              trace[i].cmd = IF i = 1 THEN "LOGIN" ELSE IF i = 2 THEN "LIST" ELSE "LOGOUT"
        /\ Len(trace) <= 3
        /\ window = <<>>
        /\ \A i \in 1..Len(log) : log[i].tag \notin {"bad_time", "reversed"}
        /\ pc \notin {"prepare", "select", "search", "refine", "delete_fetch", "store",
                       "expunge"}

\* A --list-folders run given an invalid time range, several folders and no
\* --dry-run listed the folders and ended with status 0.
ListFoldersWitness ==
    /\ args.list_folders
    /\ InvalidTimeRange
    /\ ~args.dry_run
    /\ Len(args.folders) > 1
    /\ pc = "done"
    /\ exitCode = 0
    /\ Len(trace) = 3
    /\ trace[2] = Cmd("LIST", 0, "OK")

\* The per-folder result lines main() writes after delete_messages returned.
FolderCountTags == {"deleted", "would_have_deleted"}

RECURSIVE SumCounts(_)
SumCounts(lines) ==
    IF lines = <<>> THEN 0
    ELSE (IF Head(lines).tag \in FolderCountTags THEN Head(lines).n ELSE 0)
         + SumCounts(Tail(lines))

LinesTagged(tags) == {i \in 1..Len(log) : log[i].tag \in tags}

\* The folder loop of main() ran to its end.
LoopEnded == pc \in {"finally", "done"} /\ fi > Len(args.folders)

\* C15. Multi-folder aggregation: the aggregate line of a run over several
\* folders reports the sum of the per-folder counts, which is the number of
\* previews (dry run) or of flagged messages (real run); every folder either
\* reported a count or was skipped or empty and adds nothing; the line is
\* written once whenever the folder loop of such a run ends, and never in a
\* single-folder run.
Aggregation ==
    /\ \A i \in LinesTagged({"summary"}) :
          /\ Len(args.folders) > 1
          /\ log[i].n = SumCounts(SubSeq(log, 1, i - 1))
          /\ log[i].n = Cardinality(LinesTagged({IF args.dry_run THEN "would_delete"
                                                                  ELSE "marked"}))
          /\ Cardinality({j \in LinesTagged(FolderCountTags
                                             \cup {"select_failed", "none_found"}) : j < i})
                = Len(args.folders)
    /\ LoopEnded =>
          Cardinality(LinesTagged({"summary"})) = IF Len(args.folders) > 1 THEN 1 ELSE 0

\* A two-folder run whose folders both reported a non-zero count.
AggregationWitness ==
    /\ pc = "done"
    /\ \E i \in LinesTagged({"summary"}) : log[i].n >= 2
    /\ \E i, j \in LinesTagged(FolderCountTags) : i < j /\ log[i].n > 0 /\ log[j].n > 0

\* a is b with some elements left out.
RECURSIVE IsSubseq(_, _)
IsSubseq(a, b) ==
    IF a = <<>> THEN TRUE
    ELSE IF b = <<>> THEN FALSE
    ELSE IF Head(a) = Head(b) THEN IsSubseq(Tail(a), Tail(b))
    ELSE IsSubseq(a, Tail(b))

\* Index of the latest SEARCH in the trace, 0 when there is none.
LastSearch ==
    IF CmdIdx("SEARCH") = {} THEN 0
    ELSE CHOOSE i \in CmdIdx("SEARCH") : \A j \in CmdIdx("SEARCH") : j <= i

\* Index of the last command sent before delete_messages was entered.
CommitBase == LastSearch + (IF args.time_range # None THEN Len(message_ids) ELSE 0)

\* C17. Ordering: the k-th SELECT of a run names the k-th folder of the
\* command line; the refiner fetches the candidates in the order of the SEARCH
\* response and its list is a subsequence of that response; delete_messages
\* previews (and, in a real run, flags) the messages of its list one after the
\* other in list order, each STORE right after the FETCH of the same message.
Ordering ==
    /\ \A i \in CmdIdx("SELECT") :
          trace[i].arg = Cardinality({j \in CmdIdx("SELECT") : j <= i})
    /\ pc = "refine" =>
          /\ message_ids = ServerSearch(sel, trace[LastSearch].arg)
          /\ IsSubseq(filtered_ids, message_ids)
          /\ Len(trace) = LastSearch + mi - 1
          /\ \A k \in 1..(mi - 1) : trace[LastSearch + k].cmd = "FETCH"
                                     /\ trace[LastSearch + k].arg = message_ids[k]
    /\ pc \in {"delete_fetch", "store", "expunge"} =>
          LET step == IF args.dry_run THEN 1 ELSE 2
              sent == Len(trace) - CommitBase
          IN  /\ IsSubseq(messages, ServerSearch(sel, trace[LastSearch].arg))
              /\ sent = CASE pc = "delete_fetch" -> step * (mi - 1)
                           [] pc = "store" -> step * (mi - 1) + 1
                           [] pc = "expunge" -> step * Len(messages)
              /\ \A k \in 1..Len(messages) :
                    /\ step * (k - 1) + 1 <= sent =>
                          /\ trace[CommitBase + step * (k - 1) + 1].cmd = "FETCH"
                          /\ trace[CommitBase + step * (k - 1) + 1].arg = messages[k]
                    /\ (~args.dry_run /\ 2 * k <= sent) =>
                          /\ trace[CommitBase + 2 * k].cmd = "STORE"
                          /\ trace[CommitBase + 2 * k].arg = messages[k]

\* A real time-range run on its second folder that kept two candidates and
\* has flagged both, in order.
OrderingWitness ==
    /\ pc = "expunge"
    /\ args.time_range # None
    /\ fi = 2
    /\ messages = <<1, 2>>
    /\ trace[Len(trace) - 2] = Cmd("STORE", 1, "OK")
    /\ Last(trace).cmd = "STORE" /\ Last(trace).arg = 2

\* The message id the next FETCH or STORE will name.
NextId == IF pc = "refine" THEN message_ids[mi] ELSE messages[mi]

\* C19. Message ids do not escape their selection: every FETCH and STORE
\* follows a successful SEARCH that itself follows the successful SELECT of
\* the current folder with no other SELECT in between, and the id it names is
\* one the SEARCH of the currently selected mailbox returned.
IdsStayInSelection ==
    /\ \A i \in CmdIdx("FETCH") \cup CmdIdx("STORE") :
          \E j \in 2..(i - 1) :
             /\ trace[j].cmd = "SEARCH" /\ trace[j].res = "OK"
             /\ trace[j - 1].cmd = "SELECT" /\ trace[j - 1].res = "OK"
             /\ \A k \in (j + 1)..(i - 1) : trace[k].cmd \in {"FETCH", "STORE"}
    /\ pc \in {"refine", "delete_fetch", "store"} =>
          /\ Last(trace).cmd \in {"SEARCH", "FETCH", "STORE"}
          /\ trace[LastSelect] = Cmd("SELECT", fi, "OK")
          /\ LastSearch = LastSelect + 1
          /\ \E k \in 1..Len(ServerSearch(sel, trace[LastSearch].arg)) :
                ServerSearch(sel, trace[LastSearch].arg)[k] = NextId

\* The second folder's only match is about to be flagged after the first
\* folder had two messages flagged and expunged.
IdsWitness ==
    /\ pc = "store"
    /\ fi = 2
    /\ messages = <<2>>
    /\ Cardinality({i \in CmdIdx("STORE") : i < LastSelect}) = 2
    /\ \E i \in CmdIdx("EXPUNGE") : i < LastSelect

\* C18. Severed connection propagates: once a STORE or EXPUNGE has lost the
\* connection, no SELECT, SEARCH, FETCH, STORE or EXPUNGE is sent any more.
SeveredPropagates ==
    \A i \in CmdIdx("STORE") \cup CmdIdx("EXPUNGE") :
        trace[i].res = "abort" =>
            \A j \in (i + 1)..Len(trace) : trace[j].cmd \notin DataCmds \cup {"SELECT"}

\* C16. Peek invariance: the header fetches being BODY.PEEK fetches, no
\* message of any mailbox, all unseen before the run, has \Seen set, however
\* often the refiner and the preview fetched it.
PeekInvariance ==
    /\ \A i \in 1..Len(sel) : ~sel[i].seen
    /\ \A f \in DOMAIN mbox : \A i \in 1..Len(mbox[f]) : ~mbox[f][i].seen

\* A time-range run fetched the same message for the refiner and for the
\* preview, and the message is still in the mailbox.
PeekWitness ==
    /\ pc = "done"
    /\ \E f \in DOMAIN mbox : Len(mbox[f]) >= 1
    /\ \E i, j \in CmdIdx("FETCH") :
          /\ i < j
          /\ j > LastSelect
          /\ trace[i].arg = 1 /\ trace[i].res = "OK"
          /\ trace[j].arg = 1 /\ trace[j].res = "OK"

\* A days-older SEARCH has been sent and answered.
SearchOldSent ==
    /\ args.time_range = None
    /\ trace # <<>>
    /\ Last(trace).cmd = "SEARCH"

\* The date text is a date of the calendar: DD-Mon-YYYY.
IsDateText(text) ==
    /\ \E m \in 1..12 : /\ MonthAbbr[m] = text.mon
                         /\ text.day \in 1..DaysInMonth(text.year, m)
    /\ text.year >= 1

\* The predicate of a days-older search is BEFORE <cutoff> alone, <cutoff>
\* being the text of the date args.days days before today.
CutoffRule ==
    SearchOldSent =>
        /\ ~Last(trace).arg.has_since
        /\ Last(trace).arg.since = NoDate
        /\ IsDateText(Last(trace).arg.before)
        /\ ParseDate(Last(trace).arg.before) + DayZero = today - args.days

\* --days 365 on 2025-02-01.
CutoffExample == SearchOldSent /\ args.days = 365 /\ today = ToOrdinal(2025, 2, 1)

\* C14 as claimed. Days-older predicate: BEFORE <cutoff> and no other key,
\* <cutoff> being today minus N days as DD-Mon-YYYY; with N = 365 on
\* 2025-02-01 it is BEFORE 01-Feb-2024.
CutoffAsClaimed ==
    /\ CutoffRule
    /\ CutoffExample => Last(trace).arg.before = DateText(1, "Feb", 2024)

\* C14. Days-older predicate: BEFORE <cutoff> and no other key, <cutoff>
\* being today minus N days as DD-Mon-YYYY; with N = 365 on 2025-02-01 it is
\* BEFORE 02-Feb-2024, the 365 days reaching back over 29 February 2024.
CutoffPredicate ==
    /\ CutoffRule
    /\ CutoffExample => Last(trace).arg.before = DateText(2, "Feb", 2024)

\* The run of the example has sent its SEARCH.
CutoffWitness == CutoffExample /\ Last(trace).res = "OK" /\ messages # <<>>

\* The server answered OK to every LOGIN, SELECT, SEARCH and FETCH of trace t.
ReadsOK(t) ==
    \A i \in 1..Len(t) :
        t[i].cmd \in {"LOGIN", "SELECT", "SEARCH", "FETCH"} => t[i].res = "OK"

\* A dry run and then the same command without --dry-run have both ended,
\* neither interrupted, on a server that treated the commands the two runs
\* have in common alike.
DryThenReal ==
    /\ run = 2
    /\ pc = "done"
    /\ prior.args.dry_run
    /\ ~prior.interrupted
    /\ ~interrupted
    /\ prior.trace # <<>> /\ ReadsOK(prior.trace)
    /\ trace # <<>> /\ ReadsOK(trace)

\* C11. Preview/delete parity: the real run sends as many STOREs as the dry
\* run on the same mailbox wrote "Would delete" lines.
PreviewDeleteParity ==
    DryThenReal =>
        Cardinality({i \in 1..Len(prior.log) : prior.log[i].tag = "would_delete"})
            = Cardinality(CmdIdx("STORE"))

\* This is the second run of a real deletion command whose first run ended
\* with every command answered OK.
AfterCleanRun ==
    /\ run = 2
    /\ ~prior.args.dry_run
    /\ ~prior.interrupted
    /\ prior.trace # <<>>
    /\ \A i \in 1..Len(prior.trace) : prior.trace[i].res = "OK"

\* C12. Idempotence of deletion: after a real run that met no failure, the
\* same command run again on the same mailboxes finds nothing to delete: it
\* sends no STORE and no EXPUNGE and counts zero, the first run having left no
\* message flagged and none that the search still selects.
Idempotence ==
    AfterCleanRun =>
        /\ CmdIdx("STORE") = {} /\ CmdIdx("EXPUNGE") = {}
        /\ messages = <<>>
        /\ deleted_count = 0 /\ total_deleted = 0
        /\ LinesTagged({"marked", "deleted", "expunged"}) = {}
        /\ \A f \in DOMAIN mbox : \A i \in 1..Len(mbox[f]) : ~mbox[f][i].deleted
        /\ mbox = prior.mbox

\* The first run flagged and expunged a message and left another in the
\* mailbox; the second run searched the mailbox again and ended.
IdempotenceWitness ==
    /\ AfterCleanRun
    /\ pc = "done"
    /\ \E i \in 1..Len(prior.trace) : prior.trace[i].cmd = "EXPUNGE"
    /\ \E i \in CmdIdx("SEARCH") : trace[i].res = "OK"
    /\ 1 \in DOMAIN mbox /\ Len(mbox[1]) = 1
    /\ Last(trace).cmd = "LOGOUT"

\* In trace t of a real run on one folder whose list was msgs, the operator
\* interrupted the commit loop: a preview FETCH or a STORE was cut off.
CommitInterrupted(a, t, msgs) ==
    /\ ~a.dry_run
    /\ msgs # <<>>
    /\ \E i \in 1..Len(t) : t[i].res = "interrupt" /\ t[i].cmd \in {"FETCH", "STORE"}

\* s without the messages whose sequence numbers are in ids.
RECURSIVE Without(_, _)
Without(s, ids) ==
    IF s = <<>> THEN <<>>
    ELSE Without(SubSeq(s, 1, Len(s) - 1), ids)
         \o (IF Len(s) \in ids THEN <<>> ELSE <<s[Len(s)]>>)

\* The arguments of the STOREs of the trace, in order.
RECURSIVE StoreArgs(_)
StoreArgs(t) ==
    IF t = <<>> THEN <<>>
    ELSE (IF Head(t).cmd = "STORE" THEN <<Head(t).arg>> ELSE <<>>) \o StoreArgs(Tail(t))

\* C13. Interrupt recovery.  When the operator interrupts the commit loop of
\* a real run: only the LOGOUT follows the command that was cut off, no
\* EXPUNGE is sent, every message of the list is still in the mailbox, those
\* a STORE had flagged are flagged, and the run ends with the LOGOUT.  When
\* the command is then run again and every command is answered OK: its list
\* holds every message of the interrupted run's list, it sends a STORE for
\* each message of its list, then one EXPUNGE, and the mailbox is left
\* without the messages of the list and without a flagged message.
InterruptRecovery ==
    /\ (interrupted /\ CommitInterrupted(args, trace, messages)) =>
          /\ \A i, j \in 1..Len(trace) :
                (trace[i].res = "interrupt" /\ i < j) => trace[j].cmd = "LOGOUT"
          /\ CmdIdx("EXPUNGE") = {}
          /\ \A j \in 1..Len(messages) : messages[j] \in 1..Len(mbox[1])
          /\ \A i \in CmdIdx("STORE") : trace[i].res = "OK" => mbox[1][trace[i].arg].deleted
          /\ pc = "done" => Last(trace).cmd = "LOGOUT"
    /\ (/\ run = 2
        /\ prior.interrupted
        /\ CommitInterrupted(prior.args, prior.trace, prior.messages)
        /\ pc = "done"
        /\ trace # <<>>
        /\ \A i \in 1..Len(trace) : trace[i].res = "OK") =>
          /\ IsSubseq(prior.messages, messages)
          /\ StoreArgs(trace) = messages
          /\ Cardinality(CmdIdx("EXPUNGE")) = 1
          /\ \A i \in CmdIdx("STORE") : \A j \in CmdIdx("EXPUNGE") : i < j
          /\ mbox[1] = Without(prior.mbox[1], {messages[j] : j \in 1..Len(messages)})
          /\ \A i \in 1..Len(mbox[1]) : ~mbox[1][i].deleted

\* The first run was interrupted in its second STORE, the first of the two
\* messages being flagged; the second run has flagged both and emptied the
\* mailbox.
InterruptRecoveryWitness ==
    /\ run = 2
    /\ pc = "done"
    /\ prior.interrupted
    /\ Len(prior.messages) = 2
    /\ StoreArgs(prior.trace) = <<1, 2>>
    /\ \E i \in 1..Len(prior.trace) :
          prior.trace[i].cmd = "STORE" /\ prior.trace[i].res = "interrupt"
    /\ prior.mbox[1][1].deleted
    /\ Last(prior.trace).cmd = "LOGOUT"
    /\ StoreArgs(trace) = <<1, 2>>
    /\ mbox[1] = <<>>

\* This step is a STORE that raised an exception delete_messages catches.
StoreRaised ==
    /\ pc = "store"
    /\ Len(trace') = Len(trace) + 1
    /\ Last(trace').cmd = "STORE"
    /\ Last(trace').res \in Raised

\* C21. In a real commit, when the STORE of the k-th message of the list
\* raises: delete_messages returns k-1, which is the number of STOREs of the
\* folder that completed and less than the number sent; main() reports that
\* count, adds it to the run total and moves to the next folder; and the
\* command that follows the STORE, if any, is the SELECT of the next folder
\* or the LOGOUT, so no EXPUNGE is sent for the folder.
StoreRaiseReturn ==
    /\ [][StoreRaised =>
            /\ ~args.dry_run
            /\ Last(trace').arg = messages[mi]
            /\ deleted_count = mi - 1
            /\ Cardinality({i \in SinceSelect("STORE") : trace[i].res \notin Raised})
                   = mi - 1
            /\ Cardinality(SinceSelect("STORE")) + 1 = mi
            /\ Last(log') = Line("deleted", mi - 1)
            /\ total_deleted' = total_deleted + (mi - 1)
            /\ fi' = fi + 1
            /\ pc' = "select"
            /\ interrupted' = interrupted]_vars
    /\ [](\A i \in CmdIdx("STORE") :
             (trace[i].res \in Raised /\ i < Len(trace)) =>
                 \/ trace[i + 1].cmd = "LOGOUT"
                 \/ /\ trace[i + 1].cmd = "SELECT"
                    /\ \E j \in 1..(i - 1) :
                          /\ trace[j].cmd = "SELECT"
                          /\ trace[i + 1].arg = trace[j].arg + 1
                          /\ \A k \in (j + 1)..i : trace[k].cmd # "SELECT")

\* In a two-folder run the second STORE of the first folder raised: the folder
\* reported one message, no EXPUNGE was sent for it, and the second folder
\* was selected next and went through its own commit.
StoreRaiseWitness ==
    /\ pc = "done"
    /\ Len(args.folders) = 2
    /\ \E i \in CmdIdx("STORE") :
          /\ trace[i].res \in Raised
          /\ trace[i].arg = 2
          /\ trace[i + 1].cmd = "SELECT"
          /\ trace[i + 1].res = "OK"
          /\ \A j \in 1..i : trace[j].cmd # "EXPUNGE"
          /\ \E j \in CmdIdx("EXPUNGE") : j > i
    /\ \E i \in LinesTagged({"deleted"}) : log[i].n = 1 /\ log[i - 1].tag = "error_deleting"
    /\ total_deleted >= 2

====
